---- MODULE Spec2Model ----
(***************************************************************************)
(* Model of the jeonse-risk analysis service: src/risk_utils.py (address   *)
(* and building parser, administrative code lookup, transaction matcher,   *)
(* feature extractor) and src/main.py (the /analyze request handler).      *)
(*                                                                         *)
(* Text is a sequence of characters; a character is a string naming it.    *)
(* Hangul syllables are written in romanised form ("dong" is the syllable  *)
(* U+B3D9, "je" U+C81C, "cheung" U+CE35, "ho" U+D638, ...), "O" is the     *)
(* white circle U+25CB, " " is a blank, digits and punctuation are         *)
(* themselves.  Python's None is the empty set and a present value v is    *)
(* the singleton {v}, so that None and the empty string stay distinct.     *)
(***************************************************************************)
EXTENDS Integers, Sequences, FiniteSets, TLC

VARIABLES
    (* extract_address_and_building_from_pdf *)
    ppc,          \* "in" | "out"
    hasMarker,    \* whether re.search finds the marker line in the OCR text
    words,        \* line.split() of the marker line
    address,      \* returned address (option)
    building,     \* returned building name (option)
    (* parse_ocr_text_to_features *)
    fpc,          \* "in" | "out"
    ocrText,      \* the OCR text handed to parse_ocr_text_to_features
    ratioIn,      \* the jeonse_ratio argument, as <<jeonse_price, sale_price>>
    features,     \* the returned dict (option)
    (* analyze_pdf and get_latest_officetel_trade *)
    pc,           \* position of the request in analyze_pdf
    tempExists,   \* whether ./temp/<filename> exists
    area,         \* form field area, in hundredths
    jeonse_price, \* form field jeonse_price
    lawd_cd,      \* result of get_lawd_cd (option)
    month,        \* loop variable of `for month in range(1, 13)`
    queried,      \* the months requests.get was called for, in order
    failed,       \* the months whose requests.get raised
    rawItems,     \* every <item> the registry returned, in order
    result,       \* the list `result` of accumulated records
    tradeOutcome, \* "pending" | "returned" | "raised"
    latest,       \* what get_latest_officetel_trade returned (option)
    sale_price,   \* sale_price of line 87
    err,          \* the exception that ended the request, "none" if none
    status        \* HTTP status of the response, 0 while running

parseVars == <<ppc, hasMarker, words, address, building>>
featVars == <<fpc, ocrText, ratioIn, features>>
tradeVars == <<lawd_cd, month, queried, failed, rawItems, result, tradeOutcome, latest, sale_price>>
reqVars == <<pc, tempExists, area, jeonse_price, err, status>>
vars == <<parseVars, featVars, tradeVars, reqVars>>

----------------------------------------------------------------------------
(* Generic helpers                                                         *)

None == {}
Some(v) == {v}
Val(o) == CHOOSE v \in o : TRUE

\* Python truthiness of an optional string: `not x`
Falsy(o) == o = None \/ o = Some(<<>>)

Digit == {"0", "1", "2", "3", "4", "5", "6", "7", "8", "9"}

\* the range [U+AC00, U+D7A3] of the characters used by the model
Hangul == {"seo", "ul", "teuk", "byeol", "si", "gang", "nam", "gu", "yeok",
           "sam", "dong", "o", "pi", "seu", "tel", "je", "cheung", "ho",
           "geun", "jeo", "dang", "gwon", "seol", "jeong", "geum",
           "ga", "ap", "ryu", "sin", "tak", "so", "yu", "i", "jeon",
           "im", "cha", "deung", "gi", "myeong", "ryeong"}

RECURSIVE Concat(_)
\* ''.join(list)
Concat(ws) == IF ws = <<>> THEN <<>> ELSE Head(ws) \o Concat(Tail(ws))

RECURSIVE SelectChars(_, _)
SelectChars(s, keep) ==
    IF s = <<>> THEN <<>>
    ELSE (IF Head(s) \in keep THEN <<Head(s)>> ELSE <<>>) \o SelectChars(Tail(s), keep)

\* s[i:] occurs at position i (1-based) of text
OccursAt(text, kw, i) ==
    /\ i + Len(kw) - 1 <= Len(text)
    /\ \A k \in 1..Len(kw) : text[i + k - 1] = kw[k]

\* text.startswith(kw)
ContainsAtStart(text, kw) == OccursAt(text, kw, 1)

\* keyword in text
Contains(text, kw) == \E i \in 1..(Len(text) + 1) : OccursAt(text, kw, i)

RECURSIVE Strip(_)
\* str.strip() for blanks
Strip(s) ==
    IF s = <<>> THEN s
    ELSE IF Head(s) = " " THEN Strip(Tail(s))
    ELSE IF s[Len(s)] = " " THEN Strip(SubSeq(s, 1, Len(s) - 1))
    ELSE s

----------------------------------------------------------------------------
(* risk_utils.clean_korean_text                                            *)

clean_korean_text(text) == SelectChars(text, Hangul)

----------------------------------------------------------------------------
(* risk_utils.extract_address_and_building_from_pdf                        *)

\* '동' in word
HasDong(word) == \E k \in 1..Len(word) : word[k] = "dong"

\* re.match(r"\d{1,4}-?\d*", word): anchored at the start of the word; one
\* leading digit satisfies \d{1,4} and the rest of the pattern may be empty
LotPattern(word) == Len(word) >= 1 /\ word[1] \in Digit

RECURSIVE ScanWords(_, _, _)
\* the for loop of lines 43-49; i and idx are Python's 0-based indices
ScanWords(ws, i, idx) ==
    IF i >= Len(ws) THEN idx
    ELSE LET word == ws[i + 1]
             idx1 == IF HasDong(word) THEN i ELSE idx
         IN  IF LotPattern(word) THEN i - 1
             ELSE ScanWords(ws, i + 1, idx1)

DongEndIdx(ws) == ScanWords(ws, 0, -1)

\* the test with the threshold one lower
TooFewTokensLoose(idx) == idx < 2

\* if dong_end_idx < 3: return None, None
TooFewTokens(idx) == idx < 3

\* re.search(r"(제|\d+호|층|동|\d+)", w)
SuffixPattern(w) ==
    \E k \in 1..Len(w) :
        \/ w[k] = "je"
        \/ (w[k] \in Digit /\ \E j \in (k + 1)..Len(w) :
                /\ w[j] = "ho"
                /\ \A m \in k..(j - 1) : w[m] \in Digit)
        \/ w[k] = "cheung"
        \/ w[k] = "dong"
        \/ w[k] \in Digit

\* Python's words[a:] with a 0-based
SliceFrom(ws, a) == IF a >= Len(ws) THEN <<>> ELSE SubSeq(ws, a + 1, Len(ws))

\* Python's words[a:b] with 0 <= a
Slice(ws, a, b) ==
    LET e == IF b > Len(ws) THEN Len(ws) ELSE b
    IN  IF a >= e THEN <<>> ELSE SubSeq(ws, a + 1, e)

RECURSIVE FilterWords(_)
\* [w for w in building_words if not re.search(...)]
FilterWords(ws) ==
    IF ws = <<>> THEN <<>>
    ELSE (IF SuffixPattern(Head(ws)) THEN <<>> ELSE <<Head(ws)>>) \o FilterWords(Tail(ws))

\* lines 40-63, given the words of the marker line; returns the pair
ParseMarkerLine(ws) ==
    LET idx == DongEndIdx(ws) IN
    IF TooFewTokens(idx) THEN [address |-> None, building |-> None]
    ELSE LET region == ws[1]
             citygu == ws[2] \o ws[3]
             dong   == Concat(Slice(ws, 3, idx + 1))
             addr   == region \o <<" ">> \o citygu \o <<" ">> \o dong
             building_words == SliceFrom(ws, idx + 2)
             cleaned == FilterWords(building_words)
         IN  [address  |-> Some(Strip(addr)),
              building |-> Some(clean_korean_text(Concat(cleaned)))]

\* lines 35-63
ExtractAddressAndBuilding(marker, ws) ==
    IF ~marker THEN [address |-> None, building |-> None]
    ELSE ParseMarkerLine(ws)

\* the request handler and the transaction matcher are not running
ReqIdle ==
    /\ pc = "idle" /\ tempExists = FALSE /\ area = 0 /\ jeonse_price = 0
    /\ lawd_cd = None /\ month = 0 /\ queried = <<>> /\ failed = {} /\ rawItems = <<>>
    /\ result = <<>> /\ tradeOutcome = "pending" /\ latest = None
    /\ sale_price = 0 /\ err = "none" /\ status = 0

----------------------------------------------------------------------------
(* Inputs of the parser                                                    *)

W_Seoul   == <<"seo", "ul", "teuk", "byeol", "si">>
W_Gangnam == <<"gang", "nam", "gu">>
W_Yeoksam == <<"yeok", "sam", "dong">>
W_Lot     == <<"1", "2", "3", "-", "4">>
W_Officetel == <<"O", "O", "o", "pi", "seu", "tel">>
W_Unit    == <<"je", "2", "0", "2", "ho">>

WordPool == {W_Seoul, W_Gangnam, W_Yeoksam, W_Lot, W_Officetel, W_Unit}

MaxWords == 6

Lines == UNION {[1..n -> WordPool] : n \in 1..MaxWords}

ParseInit ==
    /\ ppc = "in"
    /\ hasMarker \in BOOLEAN
    /\ words \in Lines
    /\ address = None
    /\ building = None
    /\ fpc = "idle" /\ ocrText = <<>> /\ ratioIn = <<0, 1>> /\ features = None
    /\ ReqIdle

Extract ==
    /\ ppc = "in"
    /\ LET r == ExtractAddressAndBuilding(hasMarker, words)
       IN  /\ address' = r.address
           /\ building' = r.building
    /\ ppc' = "out"
    /\ UNCHANGED <<hasMarker, words, featVars, tradeVars, reqVars>>

ParseNext == Extract

SpecParse == ParseInit /\ [][ParseNext]_vars

----------------------------------------------------------------------------
(* risk_utils.parse_ocr_text_to_features                                   *)

\* text.replace(" ", "")
RemoveBlanks(text) == SelectSeq(text, LAMBDA c : c /= " ")

DigitVal(c) ==
    CASE c = "0" -> 0 [] c = "1" -> 1 [] c = "2" -> 2 [] c = "3" -> 3
      [] c = "4" -> 4 [] c = "5" -> 5 [] c = "6" -> 6 [] c = "7" -> 7
      [] c = "8" -> 8 [] c = "9" -> 9

(* Python integers are unbounded and the amounts exceed 2^31, so an int is  *)
(* kept as its decimal numeral: a non-empty digit sequence without leading  *)
(* zeros (<<"0">> is zero).                                                 *)
RECURSIVE Canon(_)
Canon(ds) == IF Len(ds) > 1 /\ Head(ds) = "0" THEN Canon(Tail(ds)) ELSE ds

RECURSIVE LexLess(_, _)
LexLess(a, b) ==
    IF a = <<>> THEN FALSE
    ELSE IF Head(a) /= Head(b) THEN DigitVal(Head(a)) < DigitVal(Head(b))
    ELSE LexLess(Tail(a), Tail(b))

\* a < b for canonical numerals
NumLess(a, b) == Len(a) < Len(b) \/ (Len(a) = Len(b) /\ LexLess(a, b))

RECURSIVE MaxNum(_)
\* max(values) of a non-empty list
MaxNum(vs) ==
    IF Len(vs) = 1 THEN vs[1]
    ELSE LET m == MaxNum(Tail(vs)) IN IF NumLess(Head(vs), m) THEN m ELSE Head(vs)

\* int(m.replace(',', '')) of a captured group (digits and commas)
IntOfGroup(m) == Canon(SelectChars(m, Digit))

RECURSIVE DigitRun(_, _)
\* length of the maximal run of digits of text starting at position i (greedy \d+)
DigitRun(text, i) ==
    IF i <= Len(text) /\ text[i] \in Digit THEN 1 + DigitRun(text, i + 1) ELSE 0

\* length of what the group (\d+,\d+|\d+) captures at position i, 0 for no
\* match: the first alternative is a maximal digit run, a comma and a
\* maximal digit run; the second a maximal digit run
AmountMatch(text, i) ==
    LET n1 == DigitRun(text, i)
        n2 == IF n1 > 0 /\ i + n1 <= Len(text) /\ text[i + n1] = ","
              THEN DigitRun(text, i + n1 + 1) ELSE 0
    IN  IF n1 = 0 THEN 0
        ELSE IF n2 > 0 THEN n1 + 1 + n2
        ELSE n1

MortgageLabel == <<"geun", "jeo", "dang", "gwon", "seol", "jeong", "geum">>

RECURSIVE FindAll(_, _)
\* re.findall(r'<label>(\d+,\d+|\d+)', text): left to right, not overlapping
FindAll(text, i) ==
    IF i > Len(text) THEN <<>>
    ELSE LET n == IF OccursAt(text, MortgageLabel, i)
                  THEN AmountMatch(text, i + Len(MortgageLabel)) ELSE 0
         IN  IF n = 0 THEN FindAll(text, i + 1)
             ELSE <<SubSeq(text, i + Len(MortgageLabel), i + Len(MortgageLabel) + n - 1)>>
                  \o FindAll(text, i + Len(MortgageLabel) + n)

\* the divisor 1_0000_0000 = 10^MortgageUnitDigits
MortgageUnitDigits == 8

(* normalize_mortgage returns max_value / 10^8; the quotient is kept as its *)
(* numerator max_value, the divisor being fixed.                            *)
normalize_mortgage(text) ==
    LET matches == FindAll(text, 1)
        values == [k \in 1..Len(matches) |-> IntOfGroup(matches[k])]
    IN  IF values = <<>> THEN <<"0">> ELSE MaxNum(values)

KwTrust    == <<"sin", "tak">>
KwProvSeiz == <<"ga", "ap", "ryu">>
KwSeiz     == <<"ap", "ryu">>
KwTransfer == <<"so", "yu", "gwon", "i", "jeon">>
KwLeaseOrd == <<"im", "cha", "gwon", "deung", "gi", "myeong", "ryeong">>

\* int(keyword in text)
contains(text, keyword) == IF Contains(text, keyword) THEN 1 ELSE 0

parse_ocr_text_to_features(text0, jeonse_ratio) ==
    LET text == RemoveBlanks(text0) IN
    [jeonse_ratio   |-> jeonse_ratio,
     trust          |-> contains(text, KwTrust),
     mortgage_norm  |-> normalize_mortgage(text),
     prov_seizure   |-> contains(text, KwProvSeiz),
     seizure        |-> contains(text, KwSeiz),
     transfer       |-> contains(text, KwTransfer),
     lease_order    |-> contains(text, KwLeaseOrd)]

----------------------------------------------------------------------------
(* Inputs of the feature extractor                                         *)

Amt5G == <<"5", ",", "0", "0", "0", ",", "0", "0", "0", ",", "0", "0", "0">>
Amt3G == <<"3", ",", "0", "0", "0", ",", "0", "0", "0", ",", "0", "0", "0">>
Amt7K == <<"7", "0", "0", "0">>

SegmentPool == {MortgageLabel, Amt5G, Amt3G, Amt7K, <<"ga">>, <<"ap">>, <<"ap", "ryu">>,
                <<" ">>, <<"sin", "tak">>}

MaxSegs == 3

\* "... <label> 5,000,000,000 ... <label> 3,000,000,000"
LienExampleText ==
    MortgageLabel \o <<" ">> \o Amt5G \o <<" ">> \o MortgageLabel \o <<" ">> \o Amt3G

FeatureTexts ==
    {Concat(segs) : segs \in UNION {[1..n -> SegmentPool] : n \in 0..MaxSegs}}
        \cup {LienExampleText}

FeatInit ==
    /\ fpc = "in"
    /\ ocrText \in FeatureTexts
    /\ ratioIn \in {<<1, 2>>}
    /\ features = None
    /\ ppc = "idle" /\ hasMarker = FALSE /\ words = <<>>
    /\ address = None /\ building = None
    /\ ReqIdle

ParseFeatures ==
    /\ fpc = "in"
    /\ features' = Some(parse_ocr_text_to_features(ocrText, ratioIn))
    /\ fpc' = "out"
    /\ UNCHANGED <<ocrText, ratioIn, parseVars, tradeVars, reqVars>>

FeatNext == ParseFeatures

SpecFeatures == FeatInit /\ [][FeatNext]_vars

----------------------------------------------------------------------------
(* risk_utils.get_lawd_cd                                                  *)

RECURSIVE SplitFrom(_, _)
\* str.split(): the maximal runs of non-blank characters; cur is the run
\* being read
SplitFrom(s, cur) ==
    IF s = <<>> THEN (IF cur = <<>> THEN <<>> ELSE <<cur>>)
    ELSE IF Head(s) = " "
         THEN (IF cur = <<>> THEN <<>> ELSE <<cur>>) \o SplitFrom(Tail(s), <<>>)
         ELSE SplitFrom(Tail(s), Append(cur, Head(s)))

Split(s) == SplitFrom(s, <<>>)

\* s[:n]
Prefix(s, n) == SubSeq(s, 1, IF n < Len(s) THEN n ELSE Len(s))

\* the rows of the csv are records [sido, sigungu, dong, code]
get_lawd_cd(addr, table) ==
    LET parts == Split(addr) IN
    IF Len(parts) < 3 THEN None
    ELSE LET match == SelectSeq(table, LAMBDA row :
                          /\ row.sido = parts[1]
                          /\ row.sigungu = parts[2]
                          /\ row.dong = parts[3])
         IN  IF match /= <<>> THEN Some(Prefix(match[1].code, 5)) ELSE None

----------------------------------------------------------------------------
(* risk_utils.get_latest_officetel_trade                                   *)

\* the value of a digit string
RECURSIVE DigitsVal(_)
DigitsVal(ds) ==
    IF ds = <<>> THEN 0 ELSE 10 * DigitsVal(SubSeq(ds, 1, Len(ds) - 1)) + DigitVal(ds[Len(ds)])

AllDigits(s) == s /= <<>> /\ \A k \in 1..Len(s) : s[k] \in Digit

\* position of the first c in s, 0 if none
FirstPos(s, c) ==
    IF \E k \in 1..Len(s) : s[k] = c
    THEN CHOOSE k \in 1..Len(s) : s[k] = c /\ \A j \in 1..(k - 1) : s[j] /= c
    ELSE 0

(* float(text) for the decimal texts the registry sends (digits, or digits  *)
(* "." and one or two digits); the value is kept in hundredths.  Any other  *)
(* text (Python also reads exponents, signs, "nan", ...) is outside the     *)
(* inputs of the model and is a ValueError here: None.                      *)
FloatOf(text) ==
    LET dot == FirstPos(text, ".") IN
    IF dot = 0
    THEN (IF AllDigits(text) THEN Some(100 * DigitsVal(text)) ELSE None)
    ELSE LET ip == SubSeq(text, 1, dot - 1)
             fp == SubSeq(text, dot + 1, Len(text))
         IN  IF AllDigits(ip) /\ AllDigits(fp) /\ Len(fp) <= 2
             THEN Some(100 * DigitsVal(ip)
                       + (IF Len(fp) = 1 THEN 10 * DigitsVal(fp) ELSE DigitsVal(fp)))
             ELSE None

\* item.find(tag).text raises AttributeError when the element is missing
ItemFields == {"offiNm", "excluUseAr", "dealYear", "dealMonth", "dealDay", "dealAmount"}

(* the body of the try of lines 120-128: the dict appended for one item, or *)
(* None when the except clause skips the item                               *)
ParseItem(item) ==
    IF \E f \in ItemFields : item[f] = None THEN None
    ELSE IF FloatOf(Val(item.excluUseAr)) = None THEN None
    ELSE Some([name   |-> Val(item.offiNm),
               area   |-> Val(FloatOf(Val(item.excluUseAr))),
               date   |-> Val(item.dealYear) \o <<"-">> \o Val(item.dealMonth)
                          \o <<"-">> \o Val(item.dealDay),
               amount |-> Val(item.dealAmount)])

RECURSIVE ParseItems(_)
\* for item in items: try ... except: continue
ParseItems(items) ==
    IF items = <<>> THEN <<>>
    ELSE LET r == ParseItem(Head(items))
         IN  (IF r = None THEN <<>> ELSE <<Val(r)>>) \o ParseItems(Tail(items))

DaysIn(y, m) ==
    IF m \in {4, 6, 9, 11} THEN 30
    ELSE IF m = 2 THEN (IF y % 4 = 0 /\ (y % 100 /= 0 \/ y % 400 = 0) THEN 29 ELSE 28)
    ELSE 31

RECURSIVE SplitOn(_, _, _)
\* str.split(sep)
SplitOn(s, sep, cur) ==
    IF s = <<>> THEN <<cur>>
    ELSE IF Head(s) = sep THEN <<cur>> \o SplitOn(Tail(s), sep, <<>>)
    ELSE SplitOn(Tail(s), sep, Append(cur, Head(s)))

(* pd.to_datetime(..., errors="coerce") of a "year-month-day" string: the   *)
(* date as year*10000 + month*100 + day, or None for NaT                    *)
to_datetime(text) ==
    LET p == SplitOn(text, "-", <<>>) IN
    IF Len(p) /= 3 \/ \E k \in 1..3 : ~AllDigits(p[k]) THEN None
    ELSE IF Len(p[1]) /= 4 \/ Len(p[2]) > 2 \/ Len(p[3]) > 2 THEN None
    ELSE LET y == DigitsVal(p[1])
             m == DigitsVal(p[2])
             d == DigitsVal(p[3])
         IN  IF m \in 1..12 /\ d >= 1 /\ d <= DaysIn(y, m)
             THEN Some(y * 10000 + m * 100 + d) ELSE None

Abs(x) == IF x < 0 THEN -x ELSE x

\* the order of sort_values with the date ascending as well
SortsBeforeDateAsc(a, b) ==
    \/ a.diff < b.diff
    \/ (a.diff = b.diff /\ a.date < b.date)

\* the order of sort_values on the area difference alone
SortsBeforeDiffOnly(a, b) == a.diff < b.diff

\* row a sorts strictly before row b under
\* sort_values(["diff", "date"], ascending=[True, False])
SortsBefore(a, b) ==
    \/ a.diff < b.diff
    \/ (a.diff = b.diff /\ a.date > b.date)

(* lines 131-134: the rows whose name contains building_name, with the area *)
(* difference and the parsed date, the rows with NaT dropped                *)
FilteredRows(records, building_name, target) ==
    LET matching == SelectSeq(records, LAMBDA r : Contains(r.name, building_name))
        dated == [k \in 1..Len(matching) |->
                    [name   |-> matching[k].name,
                     area   |-> matching[k].area,
                     date   |-> to_datetime(matching[k].date),
                     amount |-> matching[k].amount,
                     diff   |-> Abs(matching[k].area - target)]]
        kept == SelectSeq(dated, LAMBDA r : r.date /= None)
    IN  [k \in 1..Len(kept) |-> [kept[k] EXCEPT !.date = Val(kept[k].date)]]

(* sort_values(...).head(1): the sort is stable, the first row is the       *)
(* earliest row no other row sorts before                                   *)
FirstSorted(rows) ==
    LET best == CHOOSE k \in 1..Len(rows) :
                    /\ \A j \in 1..Len(rows) : ~SortsBefore(rows[j], rows[k])
                    /\ \A j \in 1..(k - 1) :
                           \E i \in 1..Len(rows) : SortsBefore(rows[i], rows[j])
    IN  rows[best]

(* lines 130-140 on the accumulated list: [outcome, latest, error].         *)
(* pd.DataFrame([]) has no columns, so df["name"] raises KeyError.          *)
SelectLatest(records, building_name, target) ==
    IF records = <<>>
    THEN [outcome |-> "raised", latest |-> None, error |-> "KeyError"]
    ELSE LET rows == FilteredRows(records, building_name, target) IN
         IF rows = <<>>
         THEN [outcome |-> "returned", latest |-> None, error |-> "none"]
         ELSE [outcome |-> "returned", latest |-> Some(FirstSorted(rows)), error |-> "none"]

----------------------------------------------------------------------------
(* Inputs of the request                                                   *)

\* marker lines a request's document may carry
L_Example == <<W_Seoul, W_Gangnam, W_Yeoksam, W_Lot, W_Officetel>>
L_Full    == <<W_Seoul, W_Gangnam, W_Gangnam, W_Yeoksam, W_Lot, W_Officetel, W_Unit>>
L_NoName  == <<W_Seoul, W_Gangnam, W_Gangnam, W_Yeoksam, W_Lot>>

ReqLines == {L_Example, L_Full, L_NoName}

LawdRow == [sido |-> W_Seoul, sigungu |-> W_Gangnam \o W_Gangnam, dong |-> W_Yeoksam,
            code |-> <<"1", "1", "6", "8", "0", "1", "0", "1", "0", "0">>]

Tables == {<<>>, <<LawdRow>>}

Areas == {7000, 8400}
JeonsePrices == {30000000}

N_Match == <<"yeok", "sam", "o", "pi", "seu", "tel">>
N_Other == <<"o", "pi", "seu">>

Item(n, a, y, m, d, amt) ==
    [offiNm |-> n, excluUseAr |-> a, dealYear |-> y, dealMonth |-> m,
     dealDay |-> d, dealAmount |-> amt]

Y2024 == Some(<<"2", "0", "2", "4">>)

I_A == Item(Some(N_Match), Some(<<"8", "4">>), Y2024, Some(<<"3">>), Some(<<"5">>),
            Some(<<"5", ",", "0", "0", "0">>))
I_B == Item(Some(N_Match), Some(<<"8", "4">>), Y2024, Some(<<"1", "1">>), Some(<<"2", "0">>),
            Some(<<"6", ",", "0", "0", "0">>))
I_C == Item(Some(N_Match), Some(<<"5", "6">>), Y2024, Some(<<"1", "1">>), Some(<<"2", "0">>),
            Some(<<"6", ",", "5", "0", "0">>))
I_D == Item(Some(N_Match), Some(<<"9", "0", ".", "5">>), Y2024, Some(<<"1">>), Some(<<"9">>),
            Some(<<"4", ",", "0", "0", "0">>))
I_Other == Item(Some(N_Other), Some(<<"7", "0">>), Y2024, Some(<<"1", "2">>), Some(<<"1">>),
            Some(<<"9", ",", "0", "0", "0">>))
I_NoName == Item(None, Some(<<"7", "0">>), Y2024, Some(<<"3">>), Some(<<"5">>),
            Some(<<"5", ",", "0", "0", "0">>))
I_BadArea == Item(Some(N_Match), Some(<<"x">>), Y2024, Some(<<"3">>), Some(<<"5">>),
            Some(<<"5", ",", "0", "0", "0">>))
I_BadDate == Item(Some(N_Match), Some(<<"7", "0">>), Y2024, Some(<<"1", "3">>), Some(<<"5">>),
            Some(<<"5", ",", "0", "0", "0">>))
I_BadAmount == Item(Some(N_Match), Some(<<"7", "0">>), Y2024, Some(<<"3">>), Some(<<"5">>),
            Some(<<"x">>))

ItemPool == {I_A, I_B, I_C, I_D, I_Other, I_NoName, I_BadArea, I_BadDate, I_BadAmount}

MaxItems == 3
MaxResp == 2

Responses == UNION {[1..n -> ItemPool] : n \in 0..MaxResp}

ReqTexts == {<<>>, LienExampleText, KwProvSeiz}

----------------------------------------------------------------------------
(* main.analyze_pdf                                                        *)

\* int(text.replace(",", "")): None for a ValueError
IntOfAmount(text) ==
    LET t == SelectSeq(text, LAMBDA c : c /= ",") IN
    IF AllDigits(t) THEN Some(DigitsVal(t)) ELSE None

FirstMonth == 1
LastMonth == 12

\* lines 70-73
SaveUpload ==
    /\ pc = "start"
    /\ tempExists' = TRUE
    /\ pc' = "extract"
    /\ UNCHANGED <<parseVars, featVars, tradeVars, area, jeonse_price, err, status>>

\* ends the request with an unhandled exception: the framework answers 500
Raise(e) == err' = e /\ status' = 500 /\ pc' = "done"

\* lines 75-77
ExtractStep ==
    /\ pc = "extract"
    /\ \E m \in BOOLEAN, ws \in ReqLines :
         LET r == ExtractAddressAndBuilding(m, ws) IN
         /\ hasMarker' = m
         /\ words' = ws
         /\ address' = r.address
         /\ building' = r.building
         /\ IF Falsy(r.address) \/ Falsy(r.building)
            THEN status' = 400 /\ pc' = "done"
            ELSE status' = status /\ pc' = "lawd"
    /\ UNCHANGED <<ppc, featVars, tradeVars, tempExists, area, jeonse_price, err>>

\* lines 79-81
LawdStep ==
    /\ pc = "lawd"
    /\ \E table \in Tables :
         LET c == get_lawd_cd(Val(address), table) IN
         /\ lawd_cd' = c
         /\ IF c = None
            THEN status' = 400 /\ pc' = "done" /\ month' = month
            ELSE status' = status /\ pc' = "trade" /\ month' = FirstMonth
    /\ UNCHANGED <<parseVars, featVars, queried, failed, rawItems, result, tradeOutcome,
                   latest, sale_price, tempExists, area, jeonse_price, err>>

(* one iteration of the loop of lines 104-128 whose requests.get returns:   *)
(* the response carries the items resp (none for an empty month or for an   *)
(* error page, which is not XML with <item> elements)                       *)
QueryMonth ==
    /\ pc = "trade" /\ month <= LastMonth
    /\ \E resp \in Responses :
         /\ Len(rawItems) + Len(resp) <= MaxItems
         /\ rawItems' = rawItems \o resp
         /\ result' = result \o ParseItems(resp)
    /\ queried' = Append(queried, month)
    /\ month' = month + 1
    /\ UNCHANGED <<parseVars, featVars, lawd_cd, failed, tradeOutcome, latest, sale_price,
                   reqVars>>

(* one iteration whose requests.get raises (connection error, timeout):     *)
(* nothing catches it, in the function or in the handler                    *)
QueryRaises ==
    /\ pc = "trade" /\ month <= LastMonth
    /\ queried' = Append(queried, month)
    /\ failed' = failed \cup {month}
    /\ tradeOutcome' = "raised"
    /\ Raise("ConnectionError")
    /\ UNCHANGED <<parseVars, featVars, lawd_cd, month, rawItems, result, latest,
                   sale_price, tempExists, area, jeonse_price>>

\* lines 130-140, after the loop
MatchStep ==
    /\ pc = "trade" /\ month > LastMonth
    /\ LET r == SelectLatest(result, Val(building), area) IN
         /\ tradeOutcome' = r.outcome
         /\ latest' = r.latest
         /\ IF r.outcome = "raised"
            THEN Raise(r.error)
            ELSE err' = err /\ status' = status /\ pc' = "price"
    /\ UNCHANGED <<parseVars, featVars, lawd_cd, month, queried, failed, rawItems, result,
                   sale_price, tempExists, area, jeonse_price>>

\* lines 84-88
PriceStep ==
    /\ pc = "price"
    /\ IF latest = None
       THEN status' = 404 /\ pc' = "done" /\ err' = err /\ sale_price' = sale_price
       ELSE LET v == IntOfAmount(Val(latest).amount) IN
            IF v = None THEN Raise("ValueError") /\ sale_price' = sale_price
            ELSE /\ sale_price' = Val(v) * 10000
                 /\ IF Val(v) = 0 THEN Raise("ZeroDivisionError")
                    ELSE err' = err /\ status' = status /\ pc' = "features"
    /\ UNCHANGED <<parseVars, featVars, lawd_cd, month, queried, failed, rawItems, result,
                   tradeOutcome, latest, tempExists, area, jeonse_price>>

\* lines 90-91
FeaturesStep ==
    /\ pc = "features"
    /\ \E text \in ReqTexts :
         /\ ocrText' = text
         /\ ratioIn' = <<jeonse_price, sale_price>>
         /\ features' = Some(parse_ocr_text_to_features(text, <<jeonse_price, sale_price>>))
    /\ pc' = "score"
    /\ UNCHANGED <<parseVars, fpc, tradeVars, tempExists, area, jeonse_price, err, status>>

\* lines 92-124: scoring, attribution and summary succeed
RespondStep ==
    /\ pc = "score"
    /\ status' = 200
    /\ pc' = "done"
    /\ UNCHANGED <<parseVars, featVars, tradeVars, tempExists, area, jeonse_price, err>>

(* an OCR, model or summary call raises (lines 75, 90, 94-111): nothing in  *)
(* the handler catches it                                                   *)
ExternalRaises ==
    /\ pc \in {"extract", "features", "score"}
    /\ Raise("ExternalError")
    /\ UNCHANGED <<parseVars, featVars, tradeVars, tempExists, area, jeonse_price>>

Init ==
    /\ pc = "start"
    /\ tempExists = FALSE
    /\ area \in Areas
    /\ jeonse_price \in JeonsePrices
    /\ err = "none" /\ status = 0
    /\ lawd_cd = None /\ month = 0 /\ queried = <<>> /\ failed = {} /\ rawItems = <<>>
    /\ result = <<>> /\ tradeOutcome = "pending" /\ latest = None /\ sale_price = 0
    /\ ppc = "idle" /\ hasMarker = FALSE /\ words = <<>>
    /\ address = None /\ building = None
    /\ fpc = "idle" /\ ocrText = <<>> /\ ratioIn = <<0, 1>> /\ features = None

Next ==
    \/ SaveUpload
    \/ ExtractStep
    \/ LawdStep
    \/ QueryMonth
    \/ QueryRaises
    \/ MatchStep
    \/ PriceStep
    \/ FeaturesStep
    \/ RespondStep
    \/ ExternalRaises

Spec == Init /\ [][Next]_vars

----------------------------------------------------------------------------
(* Properties of extract_address_and_building_from_pdf (SpecParse)         *)

Parsed == ppc = "out" /\ hasMarker

\* C1: for a text with the marker line the parser returns either a non-empty
\* address of three parts together with a non-empty building name, or
\* (None, None); never one present without the other, never an empty name.
C1_PairedResult ==
    Parsed =>
        \/ (address = None /\ building = None)
        \/ /\ ~Falsy(address) /\ Len(Split(Val(address))) = 3
           /\ ~Falsy(building)

\* C2 as stated: for the marker line "<Seoul> <Gangnam-gu> <Yeoksam-dong>
\* 123-4 OO<officetel>" the parser returns a present address built from the
\* three address tokens and the building name "<officetel>".
C2_ExampleLinePresent ==
    (Parsed /\ words = L_Example) =>
        /\ address /= None /\ building /= None
        /\ Concat(Split(Val(address))) = W_Seoul \o W_Gangnam \o W_Yeoksam
        /\ Val(building) = <<"o", "pi", "seu", "tel">>

\* C2 as amended: for that marker line the boundary index is 2, below the 3
\* the parser requires, and it returns the absent pair (None, None).
C2_ExampleLineAbsent ==
    (Parsed /\ words = L_Example) =>
        /\ DongEndIdx(words) = 2
        /\ address = None /\ building = None

C2_ExampleParsed == Parsed /\ words = L_Example

----------------------------------------------------------------------------
(* Properties of parse_ocr_text_to_features (SpecFeatures)                 *)

\* length of a whole amount with thousands separators, digits(,digits)*, at
\* position i of text; 0 if none
FullAmountLen(text, i) ==
    LET RECURSIVE Groups(_)
        Groups(k) ==
            LET n == DigitRun(text, k) IN
            IF n = 0 THEN 0
            ELSE IF k + n <= Len(text) /\ text[k + n] = ","
                    /\ DigitRun(text, k + n + 1) > 0
                 THEN n + 1 + Groups(k + n + 1)
                 ELSE n
    IN Groups(i)

RECURSIVE FullAmounts(_, _)
\* the whole amounts that follow an occurrence of the label, as integers
FullAmounts(text, i) ==
    IF i > Len(text) THEN <<>>
    ELSE LET n == IF OccursAt(text, MortgageLabel, i)
                  THEN FullAmountLen(text, i + Len(MortgageLabel)) ELSE 0
         IN  IF n = 0 THEN FullAmounts(text, i + 1)
             ELSE <<IntOfGroup(SubSeq(text, i + Len(MortgageLabel),
                                      i + Len(MortgageLabel) + n - 1))>>
                  \o FullAmounts(text, i + Len(MortgageLabel) + n)

\* the numerator of x / 10^8 for the integer x
TimesUnit(x) == x \o [k \in 1..MortgageUnitDigits |-> "0"]

\* C5: the senior-lien feature is the maximum of the whole amounts that
\* follow the label, divided by 100,000,000 (0 when there is none); the text
\* with 5,000,000,000 and 3,000,000,000 gives 50.
C5_LienIsMaxFullAmount ==
    fpc = "out" =>
        LET full == FullAmounts(RemoveBlanks(ocrText), 1) IN
        /\ Val(features).mortgage_norm = (IF full = <<>> THEN <<"0">> ELSE MaxNum(full))
        /\ ocrText = LienExampleText =>
               Val(features).mortgage_norm = TimesUnit(<<"5", "0">>)

\* C10: in every feature record the provisional-seizure indicator being 1
\* implies the seizure indicator is 1.
C10_ProvSeizureImpliesSeizure ==
    features /= None =>
        (Val(features).prov_seizure = 1 => Val(features).seizure = 1)

\* a record with the provisional-seizure indicator set, from a text in
\* which a blank splits the keyword
C10_ProvSeizureSeen ==
    /\ fpc = "out"
    /\ Val(features).prov_seizure = 1
    /\ ~Contains(ocrText, KwProvSeiz)

----------------------------------------------------------------------------
(* Properties of get_latest_officetel_trade and analyze_pdf (Spec)         *)

Returned == tradeOutcome = "returned"

\* the accumulated records that are candidates: the name contains the
\* building name and the contract date parses
Candidates ==
    {r \in {result[k] : k \in 1..Len(result)} :
        Contains(r.name, Val(building)) /\ to_datetime(r.date) /= None}

AreaDiff(r) == Abs(r.area - area)

\* C3: a returned record is a candidate (name contains the building name,
\* date parseable), its area difference is the minimum over the candidates,
\* and no candidate with that area difference has a later contract date.
C3_BestMatch ==
    (pc = "price" /\ Returned /\ latest /= None) =>
        LET b == Val(latest) IN
        /\ Contains(b.name, Val(building))
        /\ \E c \in Candidates :
               /\ c.name = b.name /\ c.area = b.area /\ c.amount = b.amount
               /\ to_datetime(c.date) = Some(b.date)
        /\ b.diff = AreaDiff(b)
        /\ \A c \in Candidates :
               /\ b.diff <= AreaDiff(c)
               /\ AreaDiff(c) = b.diff => Val(to_datetime(c.date)) <= b.date

\* a record was chosen among candidates that differ in area difference and,
\* at the minimum area difference, in contract date
C3_ChosenAmongSeveral ==
    /\ pc = "price" /\ Returned /\ latest /= None
    /\ \E c, d, e \in Candidates :
           /\ AreaDiff(c) = AreaDiff(d) /\ AreaDiff(c) < AreaDiff(e)
           /\ AreaDiff(c) = Val(latest).diff
           /\ to_datetime(c.date) /= to_datetime(d.date)

\* a registry item that can become a candidate
Usable(item) ==
    /\ ParseItem(item) /= None
    /\ Contains(Val(item.offiNm), Val(building))
    /\ to_datetime(Val(ParseItem(item)).date) /= None

\* a registry item with a missing or malformed field
Malformed(item) ==
    \/ ParseItem(item) = None
    \/ to_datetime(Val(ParseItem(item)).date) = None
    \/ IntOfAmount(Val(item.dealAmount)) = None

RawSet == {rawItems[k] : k \in 1..Len(rawItems)}

LoopEnded == tradeOutcome /= "pending" /\ failed = {}

\* C4: when no usable candidate exists (no records in any month, every
\* record skipped, no name match, no parseable date) the function returns
\* None and raises nothing.
C4_NoCandidateReturnsNone ==
    (LoopEnded /\ ~\E item \in RawSet : Usable(item)) =>
        /\ tradeOutcome = "returned" /\ latest = None
        /\ err = "none"

\* C6: the temporary file exists while the request is processed and is gone
\* when the request has ended, on every exit path.
C6_TempFileRemoved ==
    /\ pc \in {"extract", "lawd", "trade", "price", "features", "score"} => tempExists
    /\ pc = "done" => ~tempExists

\* C7: a record with a missing or malformed field is skipped and is not
\* fatal: beside a well-formed usable record, the well-formed records are
\* accumulated and neither the function nor the request raises.
C7_MalformedRecordNotFatal ==
    (/\ pc = "done" /\ LoopEnded
     /\ \E item \in RawSet : Malformed(item)
     /\ \E item \in RawSet : Usable(item) /\ ~Malformed(item)) =>
        /\ \A item \in RawSet :
               ~Malformed(item) => \E k \in 1..Len(result) : Some(result[k]) = ParseItem(item)
        /\ err \notin {"KeyError", "ValueError"}

\* C8: when the registry call of one month fails with a network error, it
\* is not retried and the loop goes on: every month is queried exactly once
\* and the records of the other months are matched.
C8_FailedMonthOnlyDegrades ==
    (pc = "done" /\ failed /= {}) =>
        /\ queried = [k \in FirstMonth..LastMonth |-> k]
        /\ tradeOutcome = "returned"

\* the function has just ended, every registry call having returned
JustEnded == failed = {} /\ (pc = "price" \/ err = "KeyError")

Orders(n) == {f \in [1..n -> 1..n] : \A i, j \in 1..n : f[i] = f[j] => i = j}

\* what the function gives when the registry items arrive in the order f
Reordered(f) ==
    SelectLatest(ParseItems([k \in 1..Len(rawItems) |-> rawItems[f[k]]]),
                 Val(building), area)

\* C9 as stated: for every order of the same trade records the function
\* returns the same record, with the same deal amount.
C9_OrderIndependentRecord ==
    JustEnded =>
        \A f \in Orders(Len(rawItems)) : Reordered(f).latest = latest

\* C9 as amended: for every order of the same trade records the function
\* ends the same way and a returned record has the same area difference and
\* the same contract date; candidates that tie on both are told apart by
\* the order, so the record and its deal amount may differ.
C9_OrderIndependentKey ==
    JustEnded =>
        \A f \in Orders(Len(rawItems)) :
            LET q == Reordered(f) IN
            /\ q.outcome = tradeOutcome
            /\ (q.latest = None) = (latest = None)
            /\ latest /= None =>
                   /\ Val(q.latest).diff = Val(latest).diff
                   /\ Val(q.latest).date = Val(latest).date

\* a record was returned while another candidate, with another deal amount,
\* ties with it on area difference and date, and a third candidate has the
\* same area difference and an earlier date
C9_TieSeen ==
    /\ JustEnded /\ Returned /\ latest /= None
    /\ \E c, d \in Candidates :
           /\ AreaDiff(c) = Val(latest).diff
           /\ to_datetime(c.date) = Some(Val(latest).date)
           /\ c.amount /= Val(latest).amount
           /\ AreaDiff(d) = Val(latest).diff
           /\ Val(to_datetime(d.date)) < Val(latest).date

====
